---- MODULE Spec2Model ----
(***************************************************************************)
(* A model of the orchestration code of the atom3d examples:               *)
(*   examples/psr/gnn/train.py   train, train_loop, test,                  *)
(*                               compute_global_correlations, the script   *)
(*   examples/lba/enn/model.py   expand_var_list, ENN_LBA.forward,         *)
(*                               ENN_LBA_Siamese.forward and forward_once  *)
(*                                                                         *)
(* Floating point numbers are fixed point integers:                        *)
(*   correlations       in units of 1/CorrScale (1.0 is CorrScale)         *)
(*   Spearman per epoch in tenths (0.2 is 2)                               *)
(*   learning rates     in units of 1e-7 (0.0001 is 1000)                  *)
(*   validation losses  in units of 1e-4                                   *)
(* and not-a-number is the value NaN, on which every comparison is false.  *)
(***************************************************************************)
EXTENDS Integers, Sequences, FiniteSets, TLC

\* ------------------------------------------------------------------ bounds
MaxEpochs == 4          \* args.num_epochs ranges over 0..MaxEpochs
MaxEpochsSched == 6     \* the same, in the runs that exercise the scheduler
MaxCgLevels == 3        \* the required length ranges over 1..MaxCgLevels+1
MaxRows == 4            \* a results table has at most this many rows
MaxListLen == 3         \* a list hyperparameter has at most this many entries
MaxEpochsCli == 2       \* args.num_epochs ranges over 1..MaxEpochsCli in the runs of the script

\* ------------------------------------------------------------------ floats
NaN == -9999
Unbound == -8888        \* a Python local that has not been assigned yet

\* Python's a > b on floats: false as soon as one side is not-a-number.
FGt(a, b) == a # NaN /\ b # NaN /\ a > b

Max2(a, b) == IF a >= b THEN a ELSE b

\* ------------------------------------------------------------------ inputs
\* res['all_spearman'] of one validation pass, in tenths.
RsVals == {NaN, -2, 0, 2, 3, 5, 9}
\* np.sqrt(loss_all / total) of one training pass, an opaque positive number.
TrainLosses == {1, 2}
\* np.mean(losses) of one validation pass.
ValLosses == {NaN, 19996, 19999, 20000}
\* args.learning_rate: the default 1e-4, one step above the floor, the floor
\* itself and a rate below it.
LearningRates == {1000, 140, 100, 50}

\* ------------------------------------------------------------------ state
VARIABLES
    args,           \* [num_epochs, learning_rate]
    test_mode,      \* train's test_mode argument
    pc,             \* the line train is at
    epoch,          \* the loop variable of line 146
    model,          \* the weights in memory: [run, pass, partial]
    optimizer,      \* the Adam state: [run, pass, lr]
    scheduler,      \* ReduceLROnPlateau: [best, num_bad_epochs, cooldown_counter]
    train_loss,     \* [pass, value]: the pass of train_loop that returned it
    val_loss,
    res,            \* res['all_spearman']
    best_val_loss,
    best_rp,
    best_rs,
    file,           \* log_dir/best_weights.pt: <<>> or <<checkpoint>>
    csv,            \* log_dir/test_results.txt: <<>> or <<[loader, model]>>
    exception,      \* the exception that left train, or "none"
    returned,       \* the value of the return statement, or <<>>
    \* history, read by the properties only
    rsHist,         \* all_spearman of every finished validation pass
    vlHist,         \* val_loss of every finished validation pass
    lrHist,         \* the learning rate after every scheduler step
    wrote,          \* the epochs that called torch.save
    trace,          \* the phases gone through: <<epoch, phase>>
    \* one call of expand_var_list(var, num_cg_levels)
    var,            \* [type, val]: the Python type and the value, a scalar v as <<v>>
    num_cg_levels,  \* the second argument: the required length
    var_list,       \* what the call gave: [raised, value]
    expand_pc,      \* "idle", "call" or "done"
    \* one call of compute_global_correlations(results)
    results,        \* the table: a sequence of rows [target, true, pred]
    per_target,     \* the rows <<key, pearson, kendall, spearman>>
    corr_res,       \* the mapping returned (res inside the function)
    corr_pc,        \* "idle", "call" or "done"
    \* one call of forward(data, covariance_test) of a model of model.py
    net,            \* self: [class, weights], weights a name of the parameter values
    data,           \* the batch: [plain, one, two], the entries without suffix,
                    \* with suffix '1' and with suffix '2'
    covariance_test,
    session,        \* an interactive debugging session is attached to the process
    fwd_pc,         \* the line the call is at
    once,           \* the call of forward_once under way: 0 (none), 1 or 2
    locals,         \* data1, data2, the value being computed, atoms_all,
                    \* edges_all, prediction1, atoms_all1, edges_all1,
                    \* prediction2, prediction
    calls,          \* the calls made so far: [fn, on, weights]
    fwd_returned,   \* the value of the return statement, or <<>>
    \* one run of the command line of train.py
    mode,           \* args.mode
    log_dir_arg,    \* args.log_dir: <<>> for None, or <<name>>
    cli_pc,         \* the line the script is at
    seeds,          \* what np.random.randint(0, 1000, size=3) gave
    seed_i,         \* how many seeds the for statement has taken
    log_dir,        \* the variable log_dir once it names a directory, or <<>>
    rng,            \* the seed of the random generators: <<>> or <<seed>>
    fs,             \* the directories under logs/: [exists, file]
    runs            \* the calls of train: [log_dir, seed, test_mode, dir_existed]

expandVars == <<var, num_cg_levels, var_list, expand_pc>>
corrVars == <<results, per_target, corr_res, corr_pc>>
fwdVars == <<net, data, covariance_test, session, fwd_pc, once, locals, calls,
            fwd_returned>>
cliVars == <<mode, log_dir_arg, cli_pc, seeds, seed_i, log_dir, rng, fs, runs>>
others == <<expandVars, corrVars, fwdVars, cliVars>>

trainVars == <<args, test_mode, pc, epoch, model, optimizer, scheduler, train_loss,
          val_loss, res, best_val_loss, best_rp, best_rs, file, csv, exception,
          returned, rsHist, vlHist, lrHist, wrote, trace>>

vars == <<trainVars, expandVars, corrVars, fwdVars, cliVars>>

hist == <<rsHist, vlHist, lrHist, wrote, trace>>

\* ------------------------------------------------------------------ scheduler
\* torch.optim.lr_scheduler.ReduceLROnPlateau(optimizer, mode='min',
\*     factor=0.7, patience=3, min_lr=0.00001), the other arguments at their
\* defaults: threshold=1e-4, threshold_mode='rel', cooldown=0, eps=1e-8.
FactorNum == 7
FactorDen == 10
Patience == 3
MinLr == 100
Cooldown == 0
ThresholdDen == 10000   \* is_better: a < best * (1 - 1e-4)
LossInf == 200000       \* mode_worse, the initial best: inf

\* is_better(a, best), mode 'min', threshold_mode 'rel'.
IsBetter(a, best) ==
    a # NaN /\ best # NaN /\ a * ThresholdDen < best * (ThresholdDen - 1)

\* _reduce_lr: new_lr = max(old_lr * factor, min_lr), stored only when
\* old_lr - new_lr > eps (1e-8 is below one unit of the fixed point).
ReduceLr(old_lr) ==
    LET new_lr == Max2((old_lr * FactorNum) \div FactorDen, MinLr)
    IN  IF old_lr - new_lr > 0 THEN new_lr ELSE old_lr

BadEpochsReached(num_bad_epochs) == num_bad_epochs >= Patience

\* step: if self.num_bad_epochs > self.patience
BadEpochsExceeded(num_bad_epochs) == num_bad_epochs > Patience

\* ReduceLROnPlateau.step(metrics): the pair <<scheduler', lr'>>.
SchedulerStepOp(s, lr, metrics) ==
    LET better == IsBetter(metrics, s.best)
        best1  == IF better THEN metrics ELSE s.best
        bad1   == IF better THEN 0 ELSE s.num_bad_epochs + 1
        inCool == s.cooldown_counter > 0
        cool2  == IF inCool THEN s.cooldown_counter - 1 ELSE s.cooldown_counter
        bad2   == IF inCool THEN 0 ELSE bad1
    IN  IF BadEpochsExceeded(bad2)
        THEN <<[best |-> best1, num_bad_epochs |-> 0, cooldown_counter |-> Cooldown],
               ReduceLr(lr)>>
        ELSE <<[best |-> best1, num_bad_epochs |-> bad2, cooldown_counter |-> cool2],
               lr>>

\* ------------------------------------------------------------------ files
\* A best_weights.pt that an earlier run left in the same log directory.
StaleCheckpoint ==
    [epoch |-> 1,
     model_state_dict |-> [run |-> "earlier", pass |-> 1, partial |-> FALSE],
     optimizer_state_dict |-> [run |-> "earlier", pass |-> 1, lr |-> 1000],
     loss |-> [pass |-> 1, value |-> 1]]

\* The mapping that line 153 hands to torch.save.
Checkpoint(e, m, o, l) ==
    [epoch |-> e, model_state_dict |-> m, optimizer_state_dict |-> o, loss |-> l]

\* The keys of model.state_dict(): the names of the parameters of the model
\* built at line 133.
ParameterKeys == {"conv1.weight", "conv1.bias", "fc1.weight", "fc1.bias"}

\* line 179: model.load_state_dict(loaded), strict by default: it raises when
\* a key of the loaded mapping is missing or unexpected.
LoadStateDictOk(keys) == keys = ParameterKeys

\* ------------------------------------------------------------------ train
TrainInit(numEpochs, rates, modes, files) ==
    /\ args \in [num_epochs : numEpochs, learning_rate : rates]
    /\ test_mode \in modes
    /\ file \in files
    /\ pc = "for"
    /\ epoch = 0
    /\ model = [run |-> "this", pass |-> 0, partial |-> FALSE]
    /\ optimizer = [run |-> "this", pass |-> 0, lr |-> args.learning_rate]
    /\ scheduler = [best |-> LossInf, num_bad_epochs |-> 0, cooldown_counter |-> 0]
    /\ train_loss = [pass |-> 0, value |-> Unbound]
    /\ val_loss = Unbound
    /\ res = Unbound
    /\ best_val_loss = 999
    /\ best_rp = 0
    /\ best_rs = 0
    /\ csv = <<>>
    /\ exception = "none"
    /\ returned = <<>>
    /\ rsHist = <<>>
    /\ vlHist = <<>>
    /\ lrHist = <<>>
    /\ wrote = {}
    /\ trace = <<>>

RangeInclusive(e, n) == e <= n

\* range(1, n+1) has a value after e
RangeHasNext(e, n) == e < n

\* line 146: for epoch in range(1, args.num_epochs+1)
For ==
    /\ pc = "for"
    /\ UNCHANGED others
    /\ IF RangeHasNext(epoch, args.num_epochs)
       THEN /\ epoch' = epoch + 1
            /\ pc' = "train_loop"
       ELSE /\ epoch' = epoch
            /\ pc' = "if_test_mode"
    /\ UNCHANGED <<args, test_mode, model, optimizer, scheduler, train_loss,
                   val_loss, res, best_val_loss, best_rp, best_rs, file, csv,
                   exception, returned, hist>>

CaughtAndRetried(at) == at

\* Where control goes when the statement at `at` raises: no try statement
\* encloses lines 146-159, so the exception leaves train.
Uncaught(at) == "raised"

\* line 148: train_loss = train_loop(model, train_loader, optimizer, device)
TrainLoop(losses) ==
    /\ pc = "train_loop"
    /\ UNCHANGED others
    /\ \E l \in losses : train_loss' = [pass |-> epoch, value |-> l]
    /\ model' = [run |-> "this", pass |-> epoch, partial |-> FALSE]
    /\ optimizer' = [optimizer EXCEPT !.pass = epoch]
    /\ trace' = Append(trace, <<epoch, "train">>)
    /\ pc' = "validate"
    /\ UNCHANGED <<args, test_mode, epoch, scheduler, val_loss, res,
                   best_val_loss, best_rp, best_rs, file, csv, exception,
                   returned, rsHist, vlHist, lrHist, wrote>>

\* An exception in the loader or in a forward/backward pass of train_loop:
\* nothing catches it; the batches before it have already stepped the weights.
TrainLoopRaise ==
    /\ pc = "train_loop"
    /\ UNCHANGED others
    /\ \E stepped \in BOOLEAN :
        /\ model' = IF stepped
                    THEN [run |-> "this", pass |-> epoch, partial |-> TRUE]
                    ELSE model
        /\ optimizer' = IF stepped THEN [optimizer EXCEPT !.pass = epoch]
                        ELSE optimizer
    /\ exception' = "train_loop"
    /\ pc' = Uncaught(pc)
    /\ UNCHANGED <<args, test_mode, epoch, scheduler, train_loss, val_loss, res,
                   best_val_loss, best_rp, best_rs, file, csv, returned, hist>>

\* line 150, the loop of test(): the forward passes over val_loader.
Validate ==
    /\ pc = "validate"
    /\ UNCHANGED others
    /\ trace' = Append(trace, <<epoch, "validate">>)
    /\ pc' = "metrics"
    /\ UNCHANGED <<args, test_mode, epoch, model, optimizer, scheduler,
                   train_loss, val_loss, res, best_val_loss, best_rp, best_rs,
                   file, csv, exception, returned, rsHist, vlHist, lrHist,
                   wrote>>

\* An exception in the loader or in a forward pass of test().
ValidateRaise ==
    /\ pc = "validate"
    /\ UNCHANGED others
    /\ exception' = "test"
    /\ pc' = Uncaught(pc)
    /\ UNCHANGED <<args, test_mode, epoch, model, optimizer, scheduler,
                   train_loss, val_loss, res, best_val_loss, best_rp, best_rs,
                   file, csv, returned, hist>>

\* line 150, the end of test(): compute_global_correlations over the table of
\* the pass; val_loss, res, test_df are assigned.
Metrics(losses, rss) ==
    /\ pc = "metrics"
    /\ UNCHANGED others
    /\ \E l \in losses, r \in rss :
        /\ val_loss' = l
        /\ res' = r
        /\ vlHist' = Append(vlHist, l)
        /\ rsHist' = Append(rsHist, r)
    /\ trace' = Append(trace, <<epoch, "metrics">>)
    /\ pc' = "scheduler_step"
    /\ UNCHANGED <<args, test_mode, epoch, model, optimizer, scheduler,
                   train_loss, best_val_loss, best_rp, best_rs, file, csv,
                   exception, returned, lrHist, wrote>>

\* line 151: scheduler.step(val_loss)
SchedulerStep ==
    /\ pc = "scheduler_step"
    /\ UNCHANGED others
    /\ LET r == SchedulerStepOp(scheduler, optimizer.lr, val_loss)
       IN  /\ scheduler' = r[1]
           /\ optimizer' = [optimizer EXCEPT !.lr = r[2]]
           /\ lrHist' = Append(lrHist, r[2])
    /\ pc' = "checkpoint"
    /\ UNCHANGED <<args, test_mode, epoch, model, train_loss, val_loss, res,
                   best_val_loss, best_rp, best_rs, file, csv, exception,
                   returned, rsHist, vlHist, wrote, trace>>

LowerIsBetter(rs, best) == FGt(best, rs)

ImprovedOrNaN(rs, best) == rs = NaN \/ FGt(rs, best)

ImprovedOrEqual(rs, best) == rs # NaN /\ best # NaN /\ rs >= best

\* line 152: if res['all_spearman'] > best_rs
Improved(rs, best) == FGt(rs, best)

\* lines 152-159: the checkpoint decision.
CheckpointDecision ==
    /\ pc = "checkpoint"
    /\ UNCHANGED others
    /\ IF Improved(res, best_rs)
       THEN /\ file' = <<Checkpoint(epoch, model, optimizer, train_loss)>>
            /\ best_rs' = res
            /\ wrote' = wrote \cup {epoch}
       ELSE UNCHANGED <<file, best_rs, wrote>>
    /\ trace' = Append(trace, <<epoch, "checkpoint">>)
    /\ pc' = "for"
    /\ UNCHANGED <<args, test_mode, epoch, model, optimizer, scheduler,
                   train_loss, val_loss, res, best_val_loss, best_rp, csv,
                   exception, returned, rsHist, vlHist, lrHist>>

\* lines 177-195: if test_mode, torch.load of best_weights.pt, load_state_dict
\* of what it returns, a pass of test() over val_loader, and the CSV.
TestMode ==
    /\ pc = "if_test_mode"
    /\ UNCHANGED others
    /\ IF ~test_mode
       THEN /\ pc' = "return"
            /\ UNCHANGED <<model, csv, exception>>
       ELSE IF file = <<>>
       THEN /\ exception' = "FileNotFoundError"
            /\ pc' = "raised"
            /\ UNCHANGED <<model, csv>>
       ELSE IF ~LoadStateDictOk(DOMAIN file[1])
       THEN /\ exception' = "RuntimeError"
            /\ pc' = "raised"
            /\ UNCHANGED <<model, csv>>
       ELSE /\ model' = file[1].model_state_dict
            /\ csv' = <<[loader |-> "val", model |-> model']>>
            /\ pc' = "return"
            /\ UNCHANGED exception
    /\ UNCHANGED <<args, test_mode, epoch, optimizer, scheduler, train_loss,
                   val_loss, res, best_val_loss, best_rp, best_rs, file,
                   returned, hist>>

\* line 197: return best_val_loss, best_rp, best_rs
Return ==
    /\ pc = "return"
    /\ UNCHANGED others
    /\ returned' = <<best_val_loss, best_rp, best_rs>>
    /\ pc' = "terminal"
    /\ UNCHANGED <<args, test_mode, epoch, model, optimizer, scheduler,
                   train_loss, val_loss, res, best_val_loss, best_rp, best_rs,
                   file, csv, exception, hist>>

\* ------------------------------------------------------------------ idle parts
\* No call of expand_var_list is under way.
ExpandIdle ==
    /\ var = [type |-> "int", val |-> <<0>>]
    /\ num_cg_levels = 0
    /\ var_list = [raised |-> "none", value |-> <<>>]
    /\ expand_pc = "idle"

\* No call of compute_global_correlations is under way.
CorrIdle ==
    /\ results = <<>>
    /\ per_target = <<>>
    /\ corr_res = <<>>
    /\ corr_pc = "idle"

\* The names a log directory can have: logs/<time>, logs/<args.log_dir> and
\* logs/test_<seed>.
SeedVals == {3, 7}
LogDir(name, seed) == <<"logs", name, seed>>
LogDirs ==
    {LogDir("now", 0), LogDir("exp", 0)} \cup {LogDir("test_", sd) : sd \in SeedVals}

\* The script train.py is not running.
CliIdle ==
    /\ mode = "none"
    /\ log_dir_arg = <<>>
    /\ cli_pc = "idle"
    /\ seeds = <<>>
    /\ seed_i = 0
    /\ log_dir = <<>>
    /\ rng = <<>>
    /\ fs = [d \in LogDirs |-> [exists |-> FALSE, file |-> <<>>]]
    /\ runs = <<>>

\* No call of forward is under way.
ForwardIdle ==
    /\ net = [class |-> "none", weights |-> "w0"]
    /\ data = [plain |-> "a", one |-> "a", two |-> "a"]
    /\ covariance_test = FALSE
    /\ session = FALSE
    /\ fwd_pc = "idle"
    /\ once = 0
    /\ locals = [data1 |-> <<>>, data2 |-> <<>>, value |-> <<>>,
                 atoms_all |-> <<>>, edges_all |-> <<>>, prediction1 |-> <<>>,
                 atoms_all1 |-> <<>>, edges_all1 |-> <<>>,
                 prediction2 |-> <<>>, prediction |-> <<>>]
    /\ calls = <<>>
    /\ fwd_returned = <<>>

\* No run of train is under way.
TrainIdle == TrainInit({0}, {1000}, {FALSE}, {<<>>})

Init ==
    /\ TrainInit(0..MaxEpochs, {1000}, BOOLEAN, {<<>>, <<StaleCheckpoint>>})
    /\ ExpandIdle
    /\ CorrIdle
    /\ ForwardIdle
    /\ CliIdle

Next ==
    \/ For
    \/ TrainLoop(TrainLosses)
    \/ TrainLoopRaise
    \/ Validate
    \/ ValidateRaise
    \/ Metrics({20000}, RsVals)
    \/ SchedulerStep
    \/ CheckpointDecision
    \/ TestMode
    \/ Return

Spec == Init /\ [][Next]_vars

\* The runs that exercise the scheduler: every validation loss and every
\* learning rate, one Spearman value, no test_mode.
InitSched ==
    /\ TrainInit(0..MaxEpochsSched, LearningRates, {FALSE}, {<<>>})
    /\ ExpandIdle
    /\ CorrIdle
    /\ ForwardIdle
    /\ CliIdle

NextSched ==
    \/ For
    \/ TrainLoop({1})
    \/ TrainLoopRaise
    \/ Validate
    \/ ValidateRaise
    \/ Metrics(ValLosses, {5})
    \/ SchedulerStep
    \/ CheckpointDecision
    \/ TestMode
    \/ Return

SpecSched == InitSched /\ [][NextSched]_vars

\* ------------------------------------------------------------------ properties
Range(seq) == {seq[i] : i \in DOMAIN seq}

\* The checkpoint decision of epoch e has been taken.
Decided(e) == <<e, "checkpoint">> \in Range(trace)

\* The Spearman value of epoch e is a number above every number seen in the
\* epochs before it.
ExceedsBestSeen(e) ==
    /\ rsHist[e] # NaN
    /\ \A j \in 1..(e - 1) : rsHist[j] # NaN => rsHist[e] > rsHist[j]

\* The earliest epoch of D with the highest Spearman value of D.
BestEpochOf(D) ==
    CHOOSE e \in D :
        /\ rsHist[e] # NaN
        /\ \A d \in D : rsHist[d] # NaN =>
              \/ rsHist[e] > rsHist[d]
              \/ rsHist[e] = rsHist[d] /\ e <= d

DecidedEpochs == {e \in 1..Len(rsHist) : Decided(e)}

\* C1: an epoch writes best_weights.pt if and only if its validation global
\* Spearman value strictly exceeds the best value seen so far in the run.
C1_WriteIffExceedsBestSeen ==
    \A e \in DecidedEpochs : (e \in wrote) <=> ExceedsBestSeen(e)

\* The lines after the loop have been left, by a return or by an exception.
TailLeft ==
    \/ pc \in {"return", "terminal"}
    \/ pc = "raised" /\ exception \notin {"train_loop", "test"}

\* C2: with test_mode set and a checkpoint written in this run, the load after
\* the last epoch succeeds and the final pass runs on the weights saved at the
\* epoch of this run with the highest validation Spearman.
C2_FinalPassUsesBestCheckpoint ==
    (test_mode /\ wrote # {} /\ TailLeft) =>
        /\ exception = "none"
        /\ csv # <<>>
        /\ csv[1].model = [run |-> "this", pass |-> BestEpochOf(DecidedEpochs),
                           partial |-> FALSE]

Phases == <<"train", "validate", "metrics", "checkpoint">>

\* C8: a run without failure goes through exactly num_epochs epochs and then
\* reaches the terminal state; the phases of every epoch come in the order
\* training pass, validation pass, metric computation, checkpoint decision,
\* and an epoch starts only after the checkpoint decision of the one before.
C8_EpochOrder ==
    /\ \A i \in DOMAIN trace :
          trace[i] = <<((i - 1) \div 4) + 1, Phases[((i - 1) % 4) + 1]>>
    /\ Len(trace) <= 4 * args.num_epochs
    /\ pc = "train_loop" => Len(trace) = 4 * (epoch - 1)
    /\ pc \in {"if_test_mode", "return", "terminal"} =>
          /\ epoch = args.num_epochs
          /\ Len(trace) = 4 * args.num_epochs
    /\ pc = "terminal" => exception = "none" /\ returned # <<>>
    /\ pc \notin {"terminal", "raised"} => ENABLED Next

C8_Witness ==
    /\ pc = "terminal"
    /\ args.num_epochs = 3
    /\ Len(trace) = 12

\* C9: a checkpoint written in this run holds an epoch index e and the model
\* weights, optimizer state and training loss of that same epoch e, and e is
\* the earliest epoch with the highest validation Spearman seen so far; an
\* epoch that does not improve leaves the file as it is.
C9_CheckpointOfBestEpoch ==
    wrote # {} =>
        /\ Len(file) = 1
        /\ LET e == BestEpochOf(DecidedEpochs)
           IN  /\ file[1].epoch = e
               /\ file[1].model_state_dict =
                      [run |-> "this", pass |-> e, partial |-> FALSE]
               /\ file[1].optimizer_state_dict =
                      [run |-> "this", pass |-> e, lr |-> lrHist[e]]
               /\ file[1].loss.pass = e

C9_Witness ==
    /\ Len(rsHist) = 3
    /\ rsHist[1] = 5
    /\ rsHist[2] = 5
    /\ rsHist[3] = 3
    /\ pc = "for"
    /\ file # <<>>
    /\ file[1].epoch = 1

\* C10: an exception in data loading or in a forward/backward pass is not
\* retried: it leaves train, no later epoch or phase runs, no checkpoint is
\* written at or after the failure, and an earlier checkpoint stays as it was.
C10_NoRetry ==
    [][ /\ (exception = "none" /\ exception' # "none"
            /\ pc \in {"train_loop", "validate"}) =>
               /\ pc' = "raised"
               /\ file' = file
               /\ wrote' = wrote
               /\ epoch' = epoch
               /\ trace' = trace
        /\ exception # "none" => UNCHANGED vars ]_vars

C10_Witness ==
    /\ pc = "raised"
    /\ exception = "train_loop"
    /\ epoch = 3
    /\ wrote = {1, 2}
    /\ file # <<>>
    /\ file[1].epoch = 2

\* The learning rate before the scheduler step of epoch k.
LrBefore(k) == IF k = 1 THEN args.learning_rate ELSE lrHist[k - 1]

\* The validation loss a does not improve on best: it is not below best by
\* the relative threshold 1e-4 (a not-a-number loss never improves).
NotImproving(a, best) ==
    \/ a = NaN
    \/ a * ThresholdDen >= best * (ThresholdDen - 1)

\* The best validation loss of the epochs 1..k, as the scheduler keeps it.
RECURSIVE BestLossAfter(_)
BestLossAfter(k) ==
    IF k = 0 THEN LossInf
    ELSE LET b == BestLossAfter(k - 1)
         IN  IF NotImproving(vlHist[k], b) THEN b ELSE vlHist[k]

\* How many epochs in a row, up to epoch k, did not improve; the count starts
\* again after an improvement and after it has reached n.
RECURSIVE StreakAt(_, _)
StreakAt(k, n) ==
    IF k = 0 THEN 0
    ELSE IF ~NotImproving(vlHist[k], BestLossAfter(k - 1)) THEN 0
    ELSE LET before == StreakAt(k - 1, n)
         IN  IF before = n THEN 1 ELSE before + 1

\* 0.7 times the rate, not below the floor; a rate that would not go down is
\* kept.
Lowered(lr) ==
    LET c == Max2((lr * FactorNum) \div FactorDen, MinLr)
    IN  IF c < lr THEN c ELSE lr

\* The rate is lowered at the n-th epoch in a row that did not improve, and at
\* no other epoch.
LrRule(n) ==
    \A k \in 1..Len(lrHist) :
        lrHist[k] = IF StreakAt(k, n) = n THEN Lowered(LrBefore(k))
                    ELSE LrBefore(k)

NeverReducedBelowFloor ==
    \A k \in 1..Len(lrHist) :
        /\ lrHist[k] <= LrBefore(k)
        /\ lrHist[k] < LrBefore(k) => lrHist[k] >= MinLr

\* C7 as stated, for the runs whose validation losses are all numbers: the rate
\* is reduced by the factor 0.7 after 3 consecutive epochs whose validation
\* loss did not improve, not otherwise, and never below the floor.
C7_ReducedAfterThree ==
    (\A k \in DOMAIN vlHist : vlHist[k] # NaN) =>
        LrRule(Patience) /\ NeverReducedBelowFloor

\* C7, amended: the rate is reduced at the 4th consecutive epoch whose
\* validation loss did not improve (more than the patience of 3), to
\* max(0.7 * rate, floor), at no other epoch, and never below the floor.
C7_ReducedAtFourth == LrRule(Patience + 1) /\ NeverReducedBelowFloor

C7_Witness ==
    /\ args.learning_rate = 1000
    /\ Len(lrHist) = 6
    /\ vlHist[1] = 19996
    /\ lrHist[4] = 1000
    /\ lrHist[5] = 700
    /\ lrHist[6] = 700

\* ------------------------------------------------------------------ expand_var_list
\* n copies of v: the Python n * [v], empty when n <= 0.
Repeat(v, n) == [i \in 1..n |-> v]

IsNumericOrBool(type) == type \in {"float", "int", "bool"}

\* line 529: type(var) in [float, int]
IsNumeric(type) == type \in {"float", "int"}

\* lines 526-533. The result is [raised, value]: the name of the exception
\* that left the function ("none" when it returned) and the list returned.
expand_var_list(v, n) ==
    IF v.type = "list"
    THEN IF v.val = <<>>
         THEN [raised |-> "IndexError", value |-> <<>>]
         ELSE [raised |-> "none",
               value |-> v.val \o Repeat(v.val[Len(v.val)], n - Len(v.val))]
    ELSE IF IsNumeric(v.type)
    THEN [raised |-> "none", value |-> Repeat(v.val[1], n)]
    ELSE [raised |-> "ValueError", value |-> <<>>]

\* The entries a hyperparameter is made of.
Entries == {1, 2}

Lists == UNION {[1..n -> Entries] : n \in 0..MaxListLen}

\* The values a caller may pass: a scalar v is held as <<v>> (True as <<1>>);
\* a value of another type carries no entries here.
PyValues ==
    [type : {"int", "float"}, val : {<<e>> : e \in Entries}]
        \cup [type : {"list"}, val : Lists]
        \cup [type : {"bool"}, val : {<<1>>}]
        \cup [type : {"str", "tuple", "NoneType", "dict"}, val : {<<>>}]

\* lines 48-56: the required length is num_cg_levels, or num_cg_levels + 1
\* for the channel counts.
ExpandInit ==
    /\ var \in PyValues
    /\ num_cg_levels \in 1..(MaxCgLevels + 1)
    /\ var_list = [raised |-> "none", value |-> <<>>]
    /\ expand_pc = "call"
    /\ TrainIdle
    /\ CorrIdle
    /\ ForwardIdle
    /\ CliIdle

ExpandCall ==
    /\ expand_pc = "call"
    /\ var_list' = expand_var_list(var, num_cg_levels)
    /\ expand_pc' = "done"
    /\ UNCHANGED <<var, num_cg_levels, trainVars, corrVars, fwdVars, cliVars>>

NextExpand == ExpandCall

SpecExpand == ExpandInit /\ [][NextExpand]_vars

\* C3: for an int, a float or a non-empty list var and a required length n,
\* expand_var_list(var, n) returns exactly n entries; for a scalar every entry
\* equals it; for a list shorter than n the input is kept as a prefix and
\* every added entry equals the last input entry.
C3_ExpandsToRequiredLength ==
    (expand_pc = "done" /\ var.type \in {"int", "float", "list"}
     /\ var.val # <<>>) =>
        /\ var_list.raised = "none"
        /\ Len(var_list.value) = num_cg_levels
        /\ var.type # "list" =>
              \A i \in 1..num_cg_levels : var_list.value[i] = var.val[1]
        /\ (var.type = "list" /\ Len(var.val) < num_cg_levels) =>
              /\ \A i \in 1..Len(var.val) : var_list.value[i] = var.val[i]
              /\ \A i \in (Len(var.val) + 1)..num_cg_levels :
                    var_list.value[i] = var.val[Len(var.val)]

\* C4: for an input that is neither a float, an int nor a list,
\* expand_var_list signals the incorrect type by an exception and returns no
\* list.
C4_RejectsOtherTypes ==
    (expand_pc = "done" /\ var.type \notin {"float", "int", "list"}) =>
        /\ var_list.raised = "ValueError"
        /\ var_list.value = <<>>

C4_Witness ==
    /\ expand_pc = "done"
    /\ var.type = "bool"
    /\ num_cg_levels = 2
    /\ var_list.raised = "ValueError"

\* ------------------------------------------------------------------ correlations
CorrScale == 10         \* a correlation is held in tenths, truncated
MinRows == 3            \* line 24: if val.shape[0] < 3: continue

RECURSIVE SeqSum(_)
SeqSum(s) == IF s = <<>> THEN 0 ELSE s[1] + SeqSum(Tail(s))

Sign(x) == IF x > 0 THEN 1 ELSE IF x < 0 THEN -1 ELSE 0

\* num / sqrt(densq) in units of 1/CorrScale, truncated toward zero; densq > 0
\* and num * num <= densq.
Quotient(num, densq) ==
    Sign(num) * (CHOOSE r \in 0..CorrScale :
                    /\ r * r * densq <= CorrScale * CorrScale * num * num
                    /\ r = CorrScale
                       \/ (r + 1) * (r + 1) * densq
                              > CorrScale * CorrScale * num * num)

\* The entrywise product of two columns.
Times(x, y) == [i \in 1..Len(x) |-> x[i] * y[i]]

\* Series.corr(method='pearson'): not-a-number when a column is constant or
\* the table is empty.
Pearson(x, y) ==
    LET n   == Len(x)
        sx  == SeqSum(x)
        sy  == SeqSum(y)
        cov == n * SeqSum(Times(x, y)) - sx * sy
        vx  == n * SeqSum(Times(x, x)) - sx * sx
        vy  == n * SeqSum(Times(y, y)) - sy * sy
    IN  IF vx = 0 \/ vy = 0 THEN NaN ELSE Quotient(cov, vx * vy)

KendallTauA(x, y) ==
    LET n    == Len(x)
        P    == {p \in (1..n) \X (1..n) : p[1] < p[2]}
        con  == Cardinality({p \in P :
                    (x[p[1]] - x[p[2]]) * (y[p[1]] - y[p[2]]) > 0})
        dis  == Cardinality({p \in P :
                    (x[p[1]] - x[p[2]]) * (y[p[1]] - y[p[2]]) < 0})
        tot  == Cardinality(P)
    IN  IF tot = 0 THEN NaN ELSE Quotient(con - dis, tot * tot)

\* Series.corr(method='kendall'): tau-b,
\* (concordant - discordant) / sqrt((tot - xtie) * (tot - ytie)).
Kendall(x, y) ==
    LET n    == Len(x)
        P    == {p \in (1..n) \X (1..n) : p[1] < p[2]}
        con  == Cardinality({p \in P :
                    (x[p[1]] - x[p[2]]) * (y[p[1]] - y[p[2]]) > 0})
        dis  == Cardinality({p \in P :
                    (x[p[1]] - x[p[2]]) * (y[p[1]] - y[p[2]]) < 0})
        xdif == Cardinality({p \in P : x[p[1]] # x[p[2]]})
        ydif == Cardinality({p \in P : y[p[1]] # y[p[2]]})
    IN  IF xdif = 0 \/ ydif = 0 THEN NaN ELSE Quotient(con - dis, xdif * ydif)

\* Twice the average rank of every entry of x.
Ranks(x) ==
    [i \in 1..Len(x) |->
        2 * Cardinality({j \in 1..Len(x) : x[j] < x[i]})
          + Cardinality({j \in 1..Len(x) : x[j] = x[i]}) + 1]

\* Series.corr(method='spearman'): Pearson's coefficient of the ranks.
Spearman(x, y) == Pearson(Ranks(x), Ranks(y))

\* The column of a table.
TrueOf(rows) == [i \in 1..Len(rows) |-> rows[i].true]
PredOf(rows) == [i \in 1..Len(rows) |-> rows[i].pred]

\* One group of results.groupby(['target']).
GroupOf(rows, key) ==
    LET IsKey(r) == r.target = key IN SelectSeq(rows, IsKey)

TooFewBelowTwo(n) == n < 2

\* line 24: val.shape[0] < 3
TooFew(n) == n < MinRows

\* lines 20-31: the loop over the groups, in the order of the keys.
RECURSIVE PerTarget(_, _)
PerTarget(rows, keys) ==
    IF keys = {} THEN <<>>
    ELSE LET key == CHOOSE k \in keys : \A o \in keys : k <= o
             val == GroupOf(rows, key)
             rest == PerTarget(rows, keys \ {key})
         IN  IF TooFew(Len(val)) THEN rest
             ELSE <<<<key, Pearson(TrueOf(val), PredOf(val)),
                      Kendall(TrueOf(val), PredOf(val)),
                      Spearman(TrueOf(val), PredOf(val))>>>> \o rest

\* The entries of a column of per_target that are numbers, in ascending order.
RECURSIVE SortedNumbers(_)
SortedNumbers(s) ==
    LET nums == SelectSeq(s, LAMBDA v : v # NaN)
    IN  IF nums = <<>> THEN <<>>
        ELSE LET i == CHOOSE j \in 1..Len(nums) :
                          \A k \in 1..Len(nums) : nums[j] <= nums[k]
             IN  <<nums[i]>> \o
                 SortedNumbers([k \in 1..(Len(nums) - 1) |->
                                   IF k < i THEN nums[k] ELSE nums[k + 1]])

MeanOrZero(s) ==
    LET nums == SortedNumbers(s)
    IN  IF nums = <<>> THEN 0 ELSE SeqSum(nums) \div Len(nums)

\* Series.mean(): the not-a-number entries are skipped; not-a-number when no
\* entry is left.
Mean(s) ==
    LET nums == SortedNumbers(s)
    IN  IF nums = <<>> THEN NaN ELSE SeqSum(nums) \div Len(nums)

\* Series.median(), likewise.
Median(s) ==
    LET nums == SortedNumbers(s)
        n    == Len(nums)
    IN  IF n = 0 THEN NaN
        ELSE IF n % 2 = 1 THEN nums[(n + 1) \div 2]
        ELSE (nums[n \div 2] + nums[(n \div 2) + 1]) \div 2

Column(table, c) == [i \in 1..Len(table) |-> table[i][c]]

\* lines 36-51: the mapping returned.
Res(rows, table) ==
    [all_pearson |-> Pearson(TrueOf(rows), PredOf(rows)),
     all_kendall |-> Kendall(TrueOf(rows), PredOf(rows)),
     all_spearman |-> Spearman(TrueOf(rows), PredOf(rows)),
     per_target_mean_pearson |-> Mean(Column(table, 2)),
     per_target_mean_kendall |-> Mean(Column(table, 3)),
     per_target_mean_spearman |-> Mean(Column(table, 4)),
     per_target_median_pearson |-> Median(Column(table, 2)),
     per_target_median_kendall |-> Median(Column(table, 3)),
     per_target_median_spearman |-> Median(Column(table, 4))]

Targets == {1, 2}
TrueVals == {1, 2, 3}
PredVals == {1, 2}
Rows == [target : Targets, true : TrueVals, pred : PredVals]
Tables == UNION {[1..n -> Rows] : n \in 0..MaxRows}

CorrInit ==
    /\ results \in Tables
    /\ per_target = <<>>
    /\ corr_res = <<>>
    /\ corr_pc = "call"
    /\ TrainIdle
    /\ ExpandIdle
    /\ ForwardIdle
    /\ CliIdle

\* lines 19-51: one call of compute_global_correlations(results).
ComputeGlobalCorrelations ==
    /\ corr_pc = "call"
    /\ per_target' = PerTarget(results, {results[i].target : i \in DOMAIN results})
    /\ corr_res' = <<Res(results, per_target')>>
    /\ corr_pc' = "done"
    /\ UNCHANGED <<results, trainVars, expandVars, fwdVars, cliVars>>

NextCorr == ComputeGlobalCorrelations

SpecCorr == CorrInit /\ [][NextCorr]_vars

\* The tables whose pred column is slope * true + intercept with a slope above
\* zero: the synthetic results a caller hands to compute_global_correlations.
Slopes == {1, 2}
Intercepts == {-1, 0, 3}
LinearTables ==
    {[i \in DOMAIN t |-> [target |-> t[i].target, true |-> t[i].true,
                          pred |-> a * t[i].true + b]] :
        t \in UNION {[1..n -> [target : Targets, true : TrueVals]] :
                        n \in 0..MaxRows},
        a \in Slopes, b \in Intercepts}

LinearInit ==
    /\ results \in LinearTables
    /\ per_target = <<>>
    /\ corr_res = <<>>
    /\ corr_pc = "call"
    /\ TrainIdle
    /\ ExpandIdle
    /\ ForwardIdle
    /\ CliIdle

NextLinear == ComputeGlobalCorrelations

SpecLinear == LinearInit /\ [][NextLinear]_vars

\* The targets of the table that have at least 3 rows.
Qualifying ==
    {t \in Targets : Cardinality({i \in DOMAIN results : results[i].target = t}) >= 3}

\* The correlations of the rows of target t, computed on the table itself.
RowsOf(t) ==
    LET idx == {i \in DOMAIN results : results[i].target = t}
    IN  {<<i, results[i].true, results[i].pred>> : i \in idx}

\* C5: the per-target statistics are computed over exactly the target groups
\* that have at least 3 rows: a smaller group contributes nothing, and every
\* group of 3 or more rows contributes exactly one entry.
C5_GroupsOfThreeOrMore ==
    corr_pc = "done" =>
        /\ {per_target[i][1] : i \in DOMAIN per_target} = Qualifying
        /\ Len(per_target) = Cardinality(Qualifying)
        /\ \A i \in DOMAIN per_target :
              LET val == GroupOf(results, per_target[i][1])
              IN  /\ Len(val) = Cardinality(RowsOf(per_target[i][1]))
                  /\ per_target[i][2] = Pearson(TrueOf(val), PredOf(val))
                  /\ per_target[i][3] = Kendall(TrueOf(val), PredOf(val))
                  /\ per_target[i][4] = Spearman(TrueOf(val), PredOf(val))
        /\ corr_res[1].per_target_mean_pearson = Mean(Column(per_target, 2))
        /\ corr_res[1].per_target_median_pearson = Median(Column(per_target, 2))
        /\ Qualifying = {} <=> per_target = <<>>

C5_Witness ==
    /\ corr_pc = "done"
    /\ Len(results) = 4
    /\ Qualifying = {2}
    /\ Len(per_target) = 1
    /\ per_target[1][1] = 2
    /\ per_target[1][2] # NaN
    /\ corr_res[1].per_target_mean_pearson = per_target[1][2]

\* C6: with no target group of at least 3 rows the call raises nothing and
\* returns the mapping: its six per-target entries are not-a-number, and its
\* three global entries are computed over all rows.
C6_NoQualifyingGroup ==
    (corr_pc = "done" /\ Qualifying = {}) =>
        /\ Len(corr_res) = 1
        /\ corr_res[1].per_target_mean_pearson = NaN
        /\ corr_res[1].per_target_mean_kendall = NaN
        /\ corr_res[1].per_target_mean_spearman = NaN
        /\ corr_res[1].per_target_median_pearson = NaN
        /\ corr_res[1].per_target_median_kendall = NaN
        /\ corr_res[1].per_target_median_spearman = NaN
        /\ corr_res[1].all_pearson = Pearson(TrueOf(results), PredOf(results))
        /\ corr_res[1].all_kendall = Kendall(TrueOf(results), PredOf(results))
        /\ corr_res[1].all_spearman = Spearman(TrueOf(results), PredOf(results))

C6_Witness ==
    /\ corr_pc = "done"
    /\ Len(results) = 4
    /\ Qualifying = {}
    /\ corr_res[1].all_pearson = CorrScale
    /\ corr_res[1].per_target_mean_spearman = NaN

\* C11: the pass after the last epoch of a test_mode run is a pass over the
\* held-out test split: once the lines after the loop are left by a run that
\* wrote a checkpoint, a CSV has been saved and it holds the predictions for
\* the loader built from the 'test' split, not for the training or the
\* validation split.
C11_FinalPassOnTestSplit ==
    (test_mode /\ wrote # {} /\ TailLeft) =>
        /\ csv # <<>>
        /\ csv[1].loader = "test"

\* The Spearman value r is not above 0: it is 0, negative or not a number.
NotPositive(r) == r = NaN \/ r <= 0

\* C16: best_rs starts at 0, so an epoch whose validation Spearman is 0,
\* negative or not a number never writes; a run in which every epoch is such
\* has written no checkpoint, keeps best_rs at 0 and leaves best_weights.pt as
\* it found it, so that with test_mode the load after the loop finds no file
\* or one an earlier run left, never a checkpoint of this run.
C16_NonPositiveNeverWrites ==
    /\ \A e \in DecidedEpochs : NotPositive(rsHist[e]) => e \notin wrote
    /\ (\A e \in DOMAIN rsHist : NotPositive(rsHist[e])) =>
          /\ wrote = {}
          /\ best_rs = 0
          /\ file \in {<<>>, <<StaleCheckpoint>>}
          /\ (test_mode /\ TailLeft) =>
                /\ csv = <<>>
                /\ file = <<>> => exception = "FileNotFoundError"

C16_Witness ==
    /\ test_mode
    /\ pc = "raised"
    /\ exception = "FileNotFoundError"
    /\ rsHist = <<NaN, 0, -2>>
    /\ wrote = {}
    /\ file = <<>>

\* The largest of a non-empty set of numbers.
MaxOf(S) == CHOOSE m \in S : \A x \in S : x <= m

\* The validation Spearman values, not-a-number left out, of the epochs whose
\* checkpoint decision has been taken.
SeenRs == {rsHist[e] : e \in DecidedEpochs} \ {NaN}

\* C17: best_rs is the larger of 0 and the largest validation Spearman of the
\* epochs decided so far, and it never decreases; best_val_loss and best_rp
\* are never updated, so the triple train returns is (999, 0, best_rs).
C17_ReturnedTriple ==
    /\ [](/\ best_rs = MaxOf(SeenRs \cup {0})
          /\ best_val_loss = 999
          /\ best_rp = 0
          /\ returned # <<>> => returned = <<999, 0, MaxOf(SeenRs \cup {0})>>)
    /\ [][best_rs' >= best_rs]_vars

C17_Witness ==
    /\ pc = "terminal"
    /\ rsHist = <<5, 9, 3>>
    /\ returned = <<999, 0, 9>>

\* pred is an increasing linear function of true over the whole table.
IsLinearIncreasing(rows) ==
    \E a \in Slopes, b \in Intercepts :
        \A i \in DOMAIN rows : rows[i].pred = a * rows[i].true + b

\* C12: for a results table whose pred column is an increasing linear function
\* of its true column and whose true column has at least 2 distinct values,
\* compute_global_correlations returns all_pearson, all_kendall and
\* all_spearman equal to 1.0.
C12_LinearGivesOne ==
    (/\ corr_pc = "done"
     /\ IsLinearIncreasing(results)
     /\ Cardinality({results[i].true : i \in DOMAIN results}) >= 2) =>
        /\ corr_res[1].all_pearson = CorrScale
        /\ corr_res[1].all_kendall = CorrScale
        /\ corr_res[1].all_spearman = CorrScale

C12_Witness ==
    /\ corr_pc = "done"
    /\ TrueOf(results) = <<1, 3, 3, 2>>
    /\ PredOf(results) = <<5, 9, 9, 7>>
    /\ corr_res[1].all_pearson = CorrScale
    /\ corr_res[1].all_kendall = CorrScale
    /\ corr_res[1].all_spearman = CorrScale

\* ------------------------------------------------------------------ forward
\* examples/lba/enn/model.py: ENN_LBA.forward and ENN_LBA_Siamese.forward.
\* A tensor is held as the structure it was computed from followed by the
\* layers applied to it, each with the name of the weights it was applied with.
Structs == {"a", "b"}
WeightNames == {"w0", "w1"}
Classes == {"ENN_LBA", "ENN_LBA_Siamese"}

\* layer(v) computed with the weights w.
Layer(v, layer, w) == v \o <<layer, w>>

\* The record of a call of fn on the value v with the weights of self.
Call(fn, v) == Append(calls, [fn |-> fn, on |-> v, weights |-> net.weights])

ForwardInit ==
    /\ net \in [class : Classes, weights : WeightNames]
    /\ data \in [plain : Structs, one : Structs, two : Structs]
    /\ covariance_test \in BOOLEAN
    /\ session \in BOOLEAN
    /\ fwd_pc = IF net.class = "ENN_LBA" THEN "forward:input" ELSE "siamese:split"
    /\ once = 0
    /\ locals = [data1 |-> <<>>, data2 |-> <<>>, value |-> <<>>,
                 atoms_all |-> <<>>, edges_all |-> <<>>, prediction1 |-> <<>>,
                 atoms_all1 |-> <<>>, edges_all1 |-> <<>>,
                 prediction2 |-> <<>>, prediction |-> <<>>]
    /\ calls = <<>>
    /\ fwd_returned = <<>>
    /\ TrainIdle
    /\ ExpandIdle
    /\ CorrIdle
    /\ CliIdle

\* ENN_LBA.forward, lines 132-149: prepare_input, sph_harms, rad_funcs and the
\* two input functions.
Forward_Input ==
    /\ fwd_pc = "forward:input"
    /\ locals' = [locals EXCEPT
                    !.value = Layer(<<data.plain>>, "input", net.weights)]
    /\ calls' = Call("input", <<data.plain>>)
    /\ fwd_pc' = "forward:cormorant_cg"
    /\ UNCHANGED <<net, data, covariance_test, session, once, fwd_returned,
                   trainVars, expandVars, corrVars, cliVars>>

\* lines 153-155: atoms_all, edges_all = self.cormorant_cg(...)
Forward_Cg ==
    /\ fwd_pc = "forward:cormorant_cg"
    /\ locals' = [locals EXCEPT
                    !.atoms_all = Layer(locals.value, "cormorant_cg", net.weights),
                    !.edges_all = Layer(locals.value, "cormorant_cg_edges",
                                        net.weights)]
    /\ calls' = Call("cormorant_cg", locals.value)
    /\ fwd_pc' = "forward:set_trace"
    /\ UNCHANGED <<net, data, covariance_test, session, once, fwd_returned,
                   trainVars, expandVars, corrVars, cliVars>>

SetTraceSkipped(attached) == {"continue"}

\* What pdb.set_trace() can do: with a session attached the operator continues
\* or quits; without one the prompt waits for input that never comes, or reads
\* end-of-file and quits (BdbQuit).
SetTrace(attached) ==
    IF attached THEN {"continue", "quit"} ELSE {"blocked", "quit"}

\* lines 158-159: import pdb; pdb.set_trace()
Forward_SetTrace ==
    /\ fwd_pc = "forward:set_trace"
    /\ calls' = Call("pdb.set_trace", <<>>)
    /\ \E outcome \in SetTrace(session) :
          fwd_pc' = CASE outcome = "continue" -> "forward:get_scalars"
                      [] outcome = "quit" -> "forward:BdbQuit"
                      [] outcome = "blocked" -> "forward:blocked"
    /\ UNCHANGED <<net, data, covariance_test, session, once, locals,
                   fwd_returned, trainVars, expandVars, corrVars, cliVars>>

\* lines 160-161: get_scalars_atom, get_scalars_edge
Forward_Scalars ==
    /\ fwd_pc = "forward:get_scalars"
    /\ locals' = [locals EXCEPT
                    !.value = Layer(locals.atoms_all, "get_scalars_atom",
                                    net.weights)]
    /\ calls' = Call("get_scalars_atom", locals.atoms_all)
    /\ fwd_pc' = "forward:output_layer_atom"
    /\ UNCHANGED <<net, data, covariance_test, session, once, fwd_returned,
                   trainVars, expandVars, corrVars, cliVars>>

\* line 166: prediction = self.output_layer_atom(atom_scalars, atom_mask)
Forward_Output ==
    /\ fwd_pc = "forward:output_layer_atom"
    /\ locals' = [locals EXCEPT
                    !.prediction = Layer(locals.value, "output_layer_atom",
                                         net.weights)]
    /\ calls' = Call("output_layer_atom", locals.value)
    /\ fwd_pc' = "forward:return"
    /\ UNCHANGED <<net, data, covariance_test, session, once, fwd_returned,
                   trainVars, expandVars, corrVars, cliVars>>

\* lines 169-172: the return statement of ENN_LBA.forward
Forward_Return ==
    /\ fwd_pc = "forward:return"
    /\ fwd_returned' = IF covariance_test
                       THEN <<locals.prediction, locals.atoms_all,
                              locals.atoms_all>>
                       ELSE <<locals.prediction>>
    /\ fwd_pc' = "done"
    /\ UNCHANGED <<net, data, covariance_test, session, once, locals, calls,
                   trainVars, expandVars, corrVars, cliVars>>

\* ENN_LBA_Siamese.forward, lines 370-374: data1 takes the entries of the keys
\* with suffix '1', data2 those with suffix '2'.
Siamese_Split ==
    /\ fwd_pc = "siamese:split"
    /\ locals' = [locals EXCEPT !.data1 = <<data.one>>, !.data2 = <<data.two>>]
    /\ once' = 1
    /\ fwd_pc' = "once:input"
    /\ UNCHANGED <<net, data, covariance_test, session, calls, fwd_returned,
                   trainVars, expandVars, corrVars, cliVars>>

OnceArgumentFirst(k, l) == l.data1

\* lines 376-377: the argument of the k-th call of forward_once
OnceArgument(k, l) == IF k = 1 THEN l.data1 ELSE l.data2

\* forward_once, lines 334-342: prepare_input, sph_harms, rad_funcs and the
\* two input functions.
Once_Input ==
    /\ fwd_pc = "once:input"
    /\ locals' = [locals EXCEPT
                    !.value = Layer(OnceArgument(once, locals), "input",
                                    net.weights)]
    /\ calls' = Call("forward_once", OnceArgument(once, locals))
    /\ fwd_pc' = "once:cormorant_cg"
    /\ UNCHANGED <<net, data, covariance_test, session, once, fwd_returned,
                   trainVars, expandVars, corrVars, cliVars>>

\* lines 345-346: atoms_all, edges_all = self.cormorant_cg(...)
Once_Cg ==
    /\ fwd_pc = "once:cormorant_cg"
    /\ locals' = [locals EXCEPT
                    !.atoms_all = Layer(locals.value, "cormorant_cg", net.weights),
                    !.edges_all = Layer(locals.value, "cormorant_cg_edges",
                                        net.weights)]
    /\ calls' = Call("cormorant_cg", locals.value)
    /\ fwd_pc' = "once:get_scalars"
    /\ UNCHANGED <<net, data, covariance_test, session, once, fwd_returned,
                   trainVars, expandVars, corrVars, cliVars>>

\* lines 349-350: get_scalars_atom, get_scalars_edge
Once_Scalars ==
    /\ fwd_pc = "once:get_scalars"
    /\ locals' = [locals EXCEPT
                    !.value = Layer(locals.atoms_all, "get_scalars_atom",
                                    net.weights)]
    /\ calls' = Call("get_scalars_atom", locals.atoms_all)
    /\ fwd_pc' = "once:output_layer_atom"
    /\ UNCHANGED <<net, data, covariance_test, session, once, fwd_returned,
                   trainVars, expandVars, corrVars, cliVars>>

\* lines 352-353 and 376-377: output_layer_atom, the return of forward_once,
\* and the assignment of what it returned in forward.
Once_Output ==
    /\ fwd_pc = "once:output_layer_atom"
    /\ calls' = Call("output_layer_atom", locals.value)
    /\ LET prediction == Layer(locals.value, "output_layer_atom", net.weights)
       IN  IF once = 1
           THEN /\ locals' = [locals EXCEPT !.prediction1 = prediction,
                                            !.atoms_all1 = locals.atoms_all,
                                            !.edges_all1 = locals.edges_all]
                /\ once' = 2
                /\ fwd_pc' = "once:input"
           ELSE /\ locals' = [locals EXCEPT !.prediction2 = prediction]
                /\ once' = 0
                /\ fwd_pc' = "siamese:output_layer"
    /\ UNCHANGED <<net, data, covariance_test, session, fwd_returned,
                   trainVars, expandVars, corrVars, cliVars>>

\* line 379: torch.cat((prediction1, prediction2), dim=1)
Cat(p1, p2) == p1 \o p2

\* line 379: prediction = self.output_layer(torch.cat(...))
Siamese_OutputLayer ==
    /\ fwd_pc = "siamese:output_layer"
    /\ LET both == Cat(locals.prediction1, locals.prediction2)
       IN  /\ locals' = [locals EXCEPT
                           !.prediction = Layer(both, "output_layer", net.weights)]
           /\ calls' = Call("output_layer", both)
    /\ fwd_pc' = "siamese:return"
    /\ UNCHANGED <<net, data, covariance_test, session, once, fwd_returned,
                   trainVars, expandVars, corrVars, cliVars>>

\* lines 381-384: the return statement of ENN_LBA_Siamese.forward
Siamese_Return ==
    /\ fwd_pc = "siamese:return"
    /\ fwd_returned' = IF covariance_test
                       THEN <<locals.prediction, locals.atoms_all1,
                              locals.edges_all1>>
                       ELSE <<locals.prediction>>
    /\ fwd_pc' = "done"
    /\ UNCHANGED <<net, data, covariance_test, session, once, locals, calls,
                   trainVars, expandVars, corrVars, cliVars>>

NextForward ==
    \/ Forward_Input
    \/ Forward_Cg
    \/ Forward_SetTrace
    \/ Forward_Scalars
    \/ Forward_Output
    \/ Forward_Return
    \/ Siamese_Split
    \/ Once_Input
    \/ Once_Cg
    \/ Once_Scalars
    \/ Once_Output
    \/ Siamese_OutputLayer
    \/ Siamese_Return

SpecForward == ForwardInit /\ [][NextForward]_vars

\* What one pass of forward_once computes from the structure x with the
\* weights w.
OnceOf(x, w) ==
    <<x, "input", w, "cormorant_cg", w, "get_scalars_atom", w,
      "output_layer_atom", w>>

\* The calls of fn made so far, in their order.
CallsOf(fn) == LET IsFn(c) == c.fn = fn IN SelectSeq(calls, IsFn)

IsPrefix(p, q) == Len(p) <= Len(q) /\ \A i \in DOMAIN p : p[i] = q[i]

\* C13: a call of ENN_LBA_Siamese.forward runs forward_once exactly twice,
\* first on the entries with suffix '1' and then on those with suffix '2',
\* every layer of both passes with the one set of weights of the model, which
\* no step of the call changes; it applies the output head exactly once, after
\* both passes, to the concatenation of prediction1 and prediction2 in that
\* order, and returns what the head gives.
C13_SiameseTwoPasses ==
    /\ [](net.class = "ENN_LBA_Siamese" =>
            LET w == net.weights
                p1 == OnceOf(data.one, w)
                p2 == OnceOf(data.two, w)
            IN  /\ IsPrefix(CallsOf("forward_once"),
                            <<[fn |-> "forward_once", on |-> <<data.one>>,
                               weights |-> w],
                              [fn |-> "forward_once", on |-> <<data.two>>,
                               weights |-> w]>>)
                /\ \A i \in DOMAIN calls : calls[i].weights = w
                /\ Len(CallsOf("output_layer")) <= 1
                /\ fwd_pc \in {"siamese:return", "done"} =>
                      /\ Len(CallsOf("forward_once")) = 2
                      /\ locals.prediction1 = p1
                      /\ locals.prediction2 = p2
                      /\ Len(CallsOf("output_layer")) = 1
                      /\ calls[Len(calls)] =
                            [fn |-> "output_layer", on |-> p1 \o p2,
                             weights |-> w]
                /\ fwd_pc = "done" =>
                      fwd_returned[1] = Layer(p1 \o p2, "output_layer", w))
    /\ [][net' = net]_vars

C13_Witness ==
    /\ net.class = "ENN_LBA_Siamese"
    /\ fwd_pc = "done"
    /\ data.one = "a"
    /\ data.two = "b"
    /\ Len(CallsOf("forward_once")) = 2
    /\ Len(fwd_returned) = 1

\* The call has gone past the breakpoint of lines 158-159.
PastBreakpoint ==
    fwd_pc \in {"forward:get_scalars", "forward:output_layer_atom",
                "forward:return", "done"}

\* C14: in ENN_LBA.forward the call that follows the CG stack is the debugger
\* breakpoint, and scalar extraction and the output layer come only after it;
\* without an interactive debugging session the call never goes past it: it
\* stops there and returns no prediction. A call of ENN_LBA_Siamese.forward
\* meets no breakpoint and goes on until it has returned.
C14_BreakpointOnlyInENN_LBA ==
    /\ net.class = "ENN_LBA" =>
          /\ \A i \in DOMAIN calls :
                /\ (calls[i].fn = "cormorant_cg" /\ i < Len(calls)) =>
                      calls[i + 1].fn = "pdb.set_trace"
                /\ calls[i].fn \in {"get_scalars_atom", "output_layer_atom"} =>
                      \E j \in 1..(i - 1) : calls[j].fn = "pdb.set_trace"
          /\ fwd_pc = "forward:set_trace" =>
                calls[Len(calls)].fn = "cormorant_cg"
          /\ ~session => ~PastBreakpoint /\ fwd_returned = <<>>
          /\ fwd_pc \in {"forward:blocked", "forward:BdbQuit"} =>
                /\ ~ENABLED NextForward
                /\ fwd_returned = <<>>
                /\ calls[Len(calls)].fn = "pdb.set_trace"
    /\ net.class = "ENN_LBA_Siamese" =>
          /\ CallsOf("pdb.set_trace") = <<>>
          /\ fwd_pc # "done" => ENABLED NextForward
          /\ fwd_pc = "done" => fwd_returned # <<>>

C14_Witness ==
    /\ net.class = "ENN_LBA"
    /\ ~session
    /\ fwd_pc = "forward:blocked"
    /\ Len(CallsOf("cormorant_cg")) = 1
    /\ Len(CallsOf("pdb.set_trace")) = 1
    /\ fwd_returned = <<>>

\* ------------------------------------------------------------------ command line
\* examples/psr/gnn/train.py, lines 200-233: the script, with the runs of
\* train it starts.
Modes == {"train", "test", "eval"}   \* 'eval': any value other than the two

\* lines 201-212: the arguments are parsed; logs/ holds what earlier runs left.
CliInit ==
    /\ mode \in Modes
    /\ log_dir_arg \in {<<>>, <<"exp">>}
    /\ cli_pc = "dispatch"
    /\ seeds = <<>>
    /\ seed_i = 0
    /\ log_dir = <<>>
    /\ rng = <<>>
    /\ fs \in [LogDirs -> {[exists |-> FALSE, file |-> <<>>],
                           [exists |-> TRUE, file |-> <<>>],
                           [exists |-> TRUE, file |-> <<StaleCheckpoint>>]}]
    /\ \A d \in LogDirs : d[2] = "now" => ~fs[d].exists
    /\ runs = <<>>
    /\ TrainInit(1..MaxEpochsCli, {1000}, {FALSE}, {<<>>})
    /\ ExpandIdle
    /\ CorrIdle
    /\ ForwardIdle

\* lines 215 and 225: if args.mode == 'train' ... elif args.mode == 'test';
\* line 226 draws the three seeds.
CliDispatch ==
    /\ cli_pc = "dispatch"
    /\ IF mode = "train"
       THEN /\ cli_pc' = "train:log_dir"
            /\ seeds' = seeds
       ELSE IF mode = "test"
       THEN /\ cli_pc' = "test:for"
            /\ seeds' \in [1..3 -> SeedVals]
       ELSE /\ cli_pc' = "exit"
            /\ seeds' = seeds
    /\ UNCHANGED <<mode, log_dir_arg, seed_i, log_dir, rng, fs, runs,
                   trainVars, expandVars, corrVars, fwdVars>>

\* os.makedirs(d) when d does not exist.
MakeDirs(d) ==
    IF fs[d].exists THEN fs ELSE [fs EXCEPT ![d] = [exists |-> TRUE, file |-> <<>>]]

\* lines 216-222: the log directory of mode 'train' is named and created when
\* it is missing.
CliTrainLogDir ==
    /\ cli_pc = "train:log_dir"
    /\ LET d == IF log_dir_arg = <<>> THEN LogDir("now", 0)
                ELSE LogDir(log_dir_arg[1], 0)
       IN  /\ log_dir' = d
           /\ fs' = MakeDirs(d)
    /\ cli_pc' = "train:call"
    /\ UNCHANGED <<mode, log_dir_arg, seeds, seed_i, rng, runs,
                   trainVars, expandVars, corrVars, fwdVars>>

\* line 226: for seed in <the three seeds>
CliForSeed ==
    /\ cli_pc = "test:for"
    /\ IF seed_i < Len(seeds)
       THEN /\ seed_i' = seed_i + 1
            /\ cli_pc' = "test:log_dir"
       ELSE /\ seed_i' = seed_i
            /\ cli_pc' = "exit"
    /\ UNCHANGED <<mode, log_dir_arg, seeds, log_dir, rng, fs, runs,
                   trainVars, expandVars, corrVars, fwdVars>>

\* lines 227-232: logs/test_<seed> is named and created when it is missing,
\* and the random generators are seeded.
CliTestLogDir ==
    /\ cli_pc = "test:log_dir"
    /\ LET d == LogDir("test_", seeds[seed_i])
       IN  /\ log_dir' = d
           /\ fs' = MakeDirs(d)
    /\ rng' = <<seeds[seed_i]>>
    /\ cli_pc' = "test:call"
    /\ UNCHANGED <<mode, log_dir_arg, seeds, seed_i, runs,
                   trainVars, expandVars, corrVars, fwdVars>>

\* lines 223 and 233: train(args, device, log_dir) and
\* train(args, device, log_dir, seed, test_mode=True); the run starts with the
\* state lines 121-144 build and with the best_weights.pt of its directory.
CliCallTrain ==
    /\ cli_pc \in {"train:call", "test:call"}
    /\ test_mode' = (cli_pc = "test:call")
    /\ runs' = Append(runs, [log_dir |-> log_dir,
                             seed |-> IF cli_pc = "test:call"
                                      THEN <<seeds[seed_i]>> ELSE <<>>,
                             test_mode |-> test_mode',
                             dir_existed |-> fs[log_dir].exists])
    /\ file' = fs[log_dir].file
    /\ pc' = "for"
    /\ epoch' = 0
    /\ model' = [run |-> "this", pass |-> 0, partial |-> FALSE]
    /\ optimizer' = [run |-> "this", pass |-> 0, lr |-> args.learning_rate]
    /\ scheduler' = [best |-> LossInf, num_bad_epochs |-> 0,
                     cooldown_counter |-> 0]
    /\ train_loss' = [pass |-> 0, value |-> Unbound]
    /\ val_loss' = Unbound
    /\ res' = Unbound
    /\ best_val_loss' = 999
    /\ best_rp' = 0
    /\ best_rs' = 0
    /\ csv' = <<>>
    /\ exception' = "none"
    /\ returned' = <<>>
    /\ rsHist' = <<>>
    /\ vlHist' = <<>>
    /\ lrHist' = <<>>
    /\ wrote' = {}
    /\ trace' = <<>>
    /\ cli_pc' = IF cli_pc = "train:call" THEN "train:in_train" ELSE "test:in_train"
    /\ UNCHANGED <<args, mode, log_dir_arg, seeds, seed_i, log_dir, rng, fs,
                   expandVars, corrVars, fwdVars>>

\* The steps of the run of train the script is in.
CliInTrain(step) ==
    /\ cli_pc \in {"train:in_train", "test:in_train"}
    /\ step

\* train returned: the script goes on after line 223 or to the next seed.
CliTrainReturned ==
    /\ cli_pc \in {"train:in_train", "test:in_train"}
    /\ pc = "terminal"
    /\ fs' = [fs EXCEPT ![log_dir].file = file]
    /\ cli_pc' = IF cli_pc = "train:in_train" THEN "exit" ELSE "test:for"
    /\ UNCHANGED <<mode, log_dir_arg, seeds, seed_i, log_dir, rng, runs,
                   trainVars, expandVars, corrVars, fwdVars>>

\* An exception left train: no try statement encloses lines 223 and 233, so
\* it ends the script.
CliTrainRaised ==
    /\ cli_pc \in {"train:in_train", "test:in_train"}
    /\ pc = "raised"
    /\ fs' = [fs EXCEPT ![log_dir].file = file]
    /\ cli_pc' = "crashed"
    /\ UNCHANGED <<mode, log_dir_arg, seeds, seed_i, log_dir, rng, runs,
                   trainVars, expandVars, corrVars, fwdVars>>

NextCli ==
    \/ CliDispatch
    \/ CliTrainLogDir
    \/ CliForSeed
    \/ CliTestLogDir
    \/ CliCallTrain
    \/ CliInTrain(For)
    \/ CliInTrain(TrainLoop({1}))
    \/ CliInTrain(TrainLoopRaise)
    \/ CliInTrain(Validate)
    \/ CliInTrain(ValidateRaise)
    \/ CliInTrain(Metrics({20000}, {0, 5}))
    \/ CliInTrain(SchedulerStep)
    \/ CliInTrain(CheckpointDecision)
    \/ CliInTrain(TestMode)
    \/ CliInTrain(Return)
    \/ CliTrainReturned
    \/ CliTrainRaised

SpecCli == CliInit /\ [][NextCli]_vars

\* The script has ended, by reaching its last line or by an exception.
CliEnded == cli_pc \in {"exit", "crashed"}

\* How many times the script is to run train for the mode.
RunsFor(m) == IF m = "train" THEN 1 ELSE IF m = "test" THEN 3 ELSE 0

\* C15: the script dispatches on mode. With 'train' it runs train once, with
\* test_mode false, in a directory under logs/ that exists when the run
\* starts; with 'test' it runs train three times in sequence, each with
\* test_mode true in the directory logs/test_<seed> of its seed, which exists
\* when the run starts; with any other mode it runs no training. The count is
\* stated for the scripts that ended without a failure of data loading or of
\* a forward/backward pass.
C15_DispatchOnMode ==
    /\ \A i \in DOMAIN runs :
          /\ runs[i].dir_existed
          /\ runs[i].test_mode = (mode = "test")
          /\ mode = "test" =>
                /\ runs[i].seed = <<seeds[i]>>
                /\ runs[i].log_dir = LogDir("test_", seeds[i])
          /\ mode = "train" => runs[i].log_dir \in {LogDir("now", 0), LogDir("exp", 0)}
    /\ Len(runs) <= RunsFor(mode)
    /\ (CliEnded /\ exception \notin {"train_loop", "test"}) =>
          Len(runs) = RunsFor(mode)

====
